---- MODULE Spec2Model ----
(***************************************************************************)
(* Passport zero-knowledge verifier: the guest programs of the two         *)
(* variants of the repository (zkp/ and passport-protocol/) and the        *)
(* library functions they call.                                            *)
(*                                                                         *)
(* One behaviour of the model is one run of one guest program on one       *)
(* private input stream: main reads the mode, the selected verify_*        *)
(* function reads its payload, computes, and commits the output record     *)
(* to the public values, or the run panics (pc = "aborted").               *)
(*                                                                         *)
(* Text and byte strings are sequences of byte values 0..255.  SHA-256 is  *)
(* modelled as a collision-free hash: the digest of an input is the input  *)
(* between two marker values that are no bytes, so that two digests are    *)
(* equal exactly when their inputs are.  The output record handed to       *)
(* abi_encode and commit_slice is kept in public_values field by field.    *)
(***************************************************************************)
EXTENDS Integers, Sequences, FiniteSets, TLC

VARIABLES
    program,          \* which guest program runs: "zkp" or "passport_protocol"
    overflow_checks,  \* build profile: does integer overflow panic (TRUE) or wrap (FALSE)
    stdin,            \* the private input stream, one item per stdin.write of the host
    cursor,           \* number of items of stdin consumed by sp1_zkvm::io::read
    pc,               \* position of the guest: "main", a verify_* function, "committed", "aborted"
    mode,             \* the mode read by main ("none" before)
    locals,           \* the local variables of the verify_* function that ran
    public_values,    \* the public output channel: records passed to commit_slice
    events,           \* the calls of the run on its two channels, in program order:
                      \* every sp1_zkvm::io::read and every commit_slice
    dispatched        \* when a standalone program runs on the payload the dispatcher
                      \* ran on before: how the dispatcher's run ended (else empty)

vars == <<program, overflow_checks, stdin, cursor, pc, mode, locals, public_values, events,
          dispatched>>

---------------------------------------------------------------------------
(* Bounds of the model *)

\* document numbers are the prefixes of "A12345678" of length 1..MaxDocLen
MaxDocLen == 2
\* signatures are the prefixes of 0xde 0xad 0xbe 0xef of length 0..MaxSigLen
MaxSigLen == 1

---------------------------------------------------------------------------
(* Integer widths *)

U8Mod == 256
U16Mod == 65536

\* the two marker values that delimit a digest; neither is a byte
SHA_OPEN == U8Mod
SHA_CLOSE == U8Mod + 1

---------------------------------------------------------------------------
(* Input values *)

Prefix(s, n) == SubSeq(s, 1, n)

DefaultDocumentNumber == <<65, 49, 50, 51, 52, 53, 54, 55, 56>>   \* "A12345678"
DefaultSignature == <<222, 173, 190, 239>>                        \* 0xde 0xad 0xbe 0xef

DocumentNumbers == { Prefix(DefaultDocumentNumber, n) : n \in 1..MaxDocLen }
Signatures == { Prefix(DefaultSignature, n) : n \in 0..MaxSigLen }
SignedAttributes == { <<>>, <<1>> }

MYS == <<77, 89, 83>>
mys == <<109, 121, 115>>
MY == <<77, 89>>
Nationalities == { MYS, mys, MY }

GivenNames == { <<74, 79, 72, 78>>, <<74, 65, 78, 69>> }   \* "JOHN", "JANE"
Surnames == { <<68, 79, 69>>, <<82, 79, 69>> }             \* "DOE", "ROE"

Date(y, m, d) == [year |-> y, month |-> m, day |-> d]

BirthDates == { Date(1994, 11, 17), Date(2030, 1, 1), Date(2025, 11, 17), Date(2007, 12, 1) }
ExpiryDates == { Date(2030, 12, 31), Date(2035, 1, 1) }
CurrentDates == { Date(2025, 11, 16), Date(2025, 11, 17), Date(2025, 11, 18),
                  Date(2025, 1, 1), Date(2025, 12, 1), Date(2025, 10, 20) }

\* seconds since the epoch; timestamp_to_date maps them to
\* 2025-11-16, 2025-11-17, 2025-11-18, 2025-01-01 and 2025-12-01
Timestamps == { 1762056000, 1762142400, 1762228800, 1734480000, 1763388000 }

MinAges == { 18, 31 }

Wallet(lead, last) == [i \in 1..20 |-> IF i = 1 THEN lead ELSE IF i = 20 THEN last ELSE 151]
Wallets == { Wallet(112, 200), Wallet(112, 201), Wallet(113, 200) }

\* PassportData of zkp/lib
PassportDatas ==
    [document_number : DocumentNumbers, date_of_birth : BirthDates,
     date_of_expiry : ExpiryDates, nationality : Nationalities,
     given_names : GivenNames, surname : Surnames]

\* PassportAttributes of passport-protocol/lib
PassportAttributesSet ==
    [document_number : DocumentNumbers, date_of_birth : BirthDates,
     date_of_expiry : ExpiryDates, nationality : Nationalities,
     given_names : GivenNames, surname : Surnames,
     signature : Signatures, signed_attributes : SignedAttributes]

Programs == { "zkp", "passport_protocol" }

Bundles(p) == IF p = "zkp" THEN PassportDatas ELSE PassportAttributesSet

---------------------------------------------------------------------------
(* Library: sha2 as used by the commitment functions *)

\* Sha256::new()
Sha256New == <<>>

\* hasher.update(data): the hash input grows by data
Sha256Update(hasher, data) == hasher \o data

\* hasher.finalize(): collision-free, the digest determines the input
Sha256Finalize(hasher) == <<SHA_OPEN>> \o hasher \o <<SHA_CLOSE>>

\* the input a digest was computed from
DigestInput(digest) == SubSeq(digest, 2, Len(digest) - 1)

IsDigest(x) == Len(x) >= 2 /\ x[1] = SHA_OPEN /\ x[Len(x)] = SHA_CLOSE

\* u16::to_le_bytes
ToLeBytesBigEndian(x) == << x \div U8Mod, x % U8Mod >>
ToLeBytes(x) == << x % U8Mod, x \div U8Mod >>

---------------------------------------------------------------------------
(* Library: zkp/lib and passport-protocol/lib *)

\* u16 subtraction a - b as the build computes it: a panic when overflow
\* checks are compiled in, the wrapped value otherwise
SubU16(a, b, checks) ==
    IF a >= b THEN [panic |-> FALSE, value |-> a - b]
    ELSE IF checks THEN [panic |-> TRUE, value |-> 0]
    ELSE [panic |-> FALSE, value |-> (a - b) + U16Mod]

\* has the birthday not occurred yet in the current year
BirthdayNotYetDayOnly(birth, current) == current.day < birth.day
BirthdayPassed(birth, current) ==
    \/ current.month > birth.month
    \/ (current.month = birth.month /\ current.day > birth.day)
BirthdayNotYet(birth, current) ==
    \/ current.month < birth.month
    \/ (current.month = birth.month /\ current.day < birth.day)

\* calculate_age(birth, current), the same function in both libraries
calculate_age(birth, current, checks) ==
    LET diff == SubU16(current.year, birth.year, checks)
    IN  IF diff.panic THEN diff
        ELSE IF BirthdayNotYet(birth, current) THEN SubU16(diff.value, 1, checks)
        ELSE diff

\* a commitment input that also takes the expiry year
CommitmentInputWithExpiry(passport) ==
    LET h1 == Sha256Update(Sha256New, passport.document_number)
        h2 == Sha256Update(h1, ToLeBytes(passport.date_of_birth.year))
        h3 == Sha256Update(h2, <<passport.date_of_birth.month>>)
        h4 == Sha256Update(h3, <<passport.date_of_birth.day>>)
        h5 == Sha256Update(h4, passport.nationality)
    IN  Sha256Update(h5, ToLeBytes(passport.date_of_expiry.year))

\* the bytes fed to the hasher by the commitment function, update by update
CommitmentInputWithSurname(passport) ==
    LET h1 == Sha256Update(Sha256New, passport.document_number)
        h2 == Sha256Update(h1, ToLeBytes(passport.date_of_birth.year))
        h3 == Sha256Update(h2, <<passport.date_of_birth.month>>)
        h4 == Sha256Update(h3, <<passport.date_of_birth.day>>)
        h5 == Sha256Update(h4, passport.nationality)
    IN  Sha256Update(h5, passport.surname)
CommitmentInput(passport) ==
    LET h1 == Sha256Update(Sha256New, passport.document_number)
        h2 == Sha256Update(h1, ToLeBytes(passport.date_of_birth.year))
        h3 == Sha256Update(h2, <<passport.date_of_birth.month>>)
        h4 == Sha256Update(h3, <<passport.date_of_birth.day>>)
    IN  Sha256Update(h4, passport.nationality)

\* create_passport_commitment of zkp/lib
create_passport_commitment(passport) == Sha256Finalize(CommitmentInput(passport))

\* derive_identity_commitment of passport-protocol/lib
derive_identity_commitment_with_signature(passport) ==
    Sha256Finalize(Sha256Update(CommitmentInput(passport), passport.signature))
derive_identity_commitment(passport) == Sha256Finalize(CommitmentInput(passport))

\* create_wallet_binding of zkp/lib
create_wallet_binding_no_wallet(passport, wallet_address) ==
    Sha256Finalize(Sha256Update(Sha256New, create_passport_commitment(passport)))
create_wallet_binding_wallet_first(passport, wallet_address) ==
    Sha256Finalize(Sha256Update(Sha256Update(Sha256New, wallet_address),
                                create_passport_commitment(passport)))
create_wallet_binding(passport, wallet_address) ==
    LET passport_commitment == create_passport_commitment(passport)
        h1 == Sha256Update(Sha256New, passport_commitment)
        h2 == Sha256Update(h1, wallet_address)
    IN  Sha256Finalize(h2)

\* a signature check that looks at the signed attributes instead
verify_passport_signature_attested(passport) == passport.signed_attributes /= <<>>

\* a signature check that accepts every bundle
verify_passport_signature_any(passport) == passport = passport

\* verify_passport_signature of passport-protocol/lib (a placeholder)
verify_passport_signature(passport) == passport.signature /= <<>>

\* timestamp_to_date of passport-protocol/lib; the timestamps of the model
\* are below 2^31, so neither "as u16" nor "as u8" truncates
SecondsPerLeapYear == 366 * 86400
SECONDS_PER_YEAR == 31536000
SECONDS_PER_MONTH == 2628000
SECONDS_PER_DAY == 86400
EPOCH_YEAR == 1970
timestamp_to_date(timestamp) ==
    LET year == EPOCH_YEAR + ((timestamp \div SECONDS_PER_YEAR) % U16Mod)
        remainder == timestamp % SECONDS_PER_YEAR
        month == 1 + ((remainder \div SECONDS_PER_MONTH) % U8Mod)
        day == 1 + (((remainder % SECONDS_PER_MONTH) \div SECONDS_PER_DAY) % U8Mod)
    IN  Date(year, month, day)

\* u16 addition a + b as the build computes it
AddU16(a, b, checks) ==
    IF a + b < U16Mod THEN [panic |-> FALSE, value |-> a + b]
    ELSE IF checks THEN [panic |-> TRUE, value |-> 0]
    ELSE [panic |-> FALSE, value |-> (a + b) - U16Mod]

\* hexadecimal digit i (1 is the most significant of 16) of the u64 with the
\* given 8 little-endian bytes
NibbleOfLe64(bytes, i) ==
    LET byte == bytes[8 - ((i - 1) \div 2)]
    IN  IF i % 2 = 1 THEN byte \div 16 ELSE byte % 16

\* a u64 given by its 8 little-endian bytes, divided by d: the quotient "as u16"
\* (its low 16 bits) and the remainder, by long division in base 16
DivLe64(bytes, d) ==
    LET F[i \in 0..16] ==
            IF i = 0 THEN [q |-> 0, r |-> 0]
            ELSE LET prev == F[i - 1]
                     r2 == prev.r * 16 + NibbleOfLe64(bytes, i)
                 IN  [q |-> (prev.q * 16 + (r2 \div d)) % U16Mod, r |-> r2 % d]
    IN  F[16]

\* timestamp_to_date on a u64 of any size, given by its 8 little-endian bytes;
\* 1970 + (..) as u16 is a u16 addition
timestamp_to_date_le64(bytes, checks) ==
    LET qr == DivLe64(bytes, SECONDS_PER_YEAR)
        year == AddU16(EPOCH_YEAR, qr.q, checks)
        month == 1 + ((qr.r \div SECONDS_PER_MONTH) % U8Mod)
        day == 1 + (((qr.r % SECONDS_PER_MONTH) \div SECONDS_PER_DAY) % U8Mod)
    IN  [panic |-> year.panic, value |-> Date(year.value, month, day)]

---------------------------------------------------------------------------
(* The private input stream *)

Item(ty, v) == [type |-> ty, val |-> v]

ModeType(p) == IF p = "zkp" THEN "VerificationMode" ELSE "ProofType"
BundleType(p) == IF p = "zkp" THEN "PassportData" ELSE "PassportAttributes"

\* the names of the three modes in each program's enumeration
AgeMode(p) == IF p = "zkp" THEN "Age" ELSE "AgeCheck"
NationalityMode(p) == IF p = "zkp" THEN "Nationality" ELSE "NationalityCheck"
WalletMode(p) == IF p = "zkp" THEN "WalletBinding" ELSE "WalletLink"

\* the streams the host scripts write: the mode first, then the payload
\* (the current time is a Date in zkp, a u64 timestamp in passport-protocol)
AgeStream(p, b, now, m) ==
    << Item(ModeType(p), AgeMode(p)), Item(BundleType(p), b),
       Item(IF p = "zkp" THEN "Date" ELSE "u64", now), Item("u16", m) >>

NationalityStream(p, b, n) ==
    << Item(ModeType(p), NationalityMode(p)), Item(BundleType(p), b), Item("String", n) >>

WalletStream(p, b, w) ==
    << Item(ModeType(p), WalletMode(p)), Item(BundleType(p), b), Item("[u8; 20]", w) >>

Nows(p) == IF p = "zkp" THEN CurrentDates ELSE Timestamps

\* verify_age reading the minimum age before the current date
AgeFieldsMinAgeFirst(p) ==
    IF p = "zkp" THEN << "PassportData", "u16", "Date" >>
    ELSE << "PassportAttributes", "u16", "u64" >>

\* the types verify_age, verify_nationality and verify_wallet_binding read, in
\* the order of their read calls
AgeFields(p) ==
    IF p = "zkp" THEN << "PassportData", "Date", "u16" >>
    ELSE << "PassportAttributes", "u64", "u16" >>
NationalityFields(p) == << BundleType(p), "String" >>
WalletFields(p) == << BundleType(p), "[u8; 20]" >>

\* the modes of each guest program's enumeration
GuestModes(p) == { AgeMode(p), NationalityMode(p), WalletMode(p) }

\* the bundles prove.rs and evm.rs build: expiry, names and signed attributes
\* are fixed, the signature is the mock signature (or, here, also empty)
FixtureBundles(p) ==
    { b \in Bundles(p) :
        /\ b.date_of_expiry = Date(2030, 12, 31)
        /\ b.given_names = <<74, 79, 72, 78>>
        /\ b.surname = <<68, 79, 69>>
        /\ (p = "zkp" \/ b.signed_attributes = <<>>) }

\* the times prove.rs and evm.rs take from the clock
CombinedTimestamps == { 1734480000, 1763388000 }

\* the stream prove.rs and evm.rs write for the combined mode
PassportStream(b, w, now, m, n) ==
    << Item("ProofType", "ProofOfPassport"), Item("PassportAttributes", b),
       Item("[u8; 20]", w), Item("u64", now), Item("u16", m), Item("String", n) >>

\* a stream whose first item is no variant index of any mode enumeration
InvalidModeStream(p, b, now, m) ==
    << Item(ModeType(p), "Invalid") >> \o Tail(AgeStream(p, b, now, m))

\* the stream is a host stream or, when it ends early, a prefix of one
IsPrefixOf(s) == \E n \in 0..Len(s) : stdin = Prefix(s, n)

\* bincode::deserialize::<T> on the buffer of an item.  bincode is not
\* self-describing and accepts trailing bytes: a u64 read from the 20 bytes of
\* an address is its first 8 bytes (kept as these bytes, little-endian), a u16
\* read from the 8 bytes of a u64 is its low 16 bits, and a String read from an
\* address takes the first 8 bytes as its length and fails unless the 12 bytes
\* left hold that many.  No other mismatch occurs on the streams of the model.
Deserialize(ty, item) ==
    CASE item.type = ty -> [ok |-> TRUE, exact |-> TRUE, val |-> item.val]
      [] ty = "u64" /\ item.type = "[u8; 20]" ->
             [ok |-> TRUE, exact |-> FALSE, val |-> Prefix(item.val, 8)]
      [] ty = "u16" /\ item.type = "u64" ->
             [ok |-> TRUE, exact |-> FALSE, val |-> item.val % U16Mod]
      [] ty = "String" /\ item.type = "[u8; 20]" ->
             IF /\ \A i \in 2..8 : item.val[i] = 0
                /\ item.val[1] <= 12
                /\ \A i \in 9..(8 + item.val[1]) : item.val[i] < 128
             THEN [ok |-> TRUE, exact |-> FALSE,
                   val |-> SubSeq(item.val, 9, 8 + item.val[1])]
             ELSE [ok |-> FALSE, exact |-> FALSE, val |-> <<>>]
      [] OTHER -> [ok |-> FALSE, exact |-> FALSE, val |-> <<>>]

\* sp1_zkvm::io::read::<T>() at item i: there is an item and it decodes as T
CanRead(i, ty) == i <= Len(stdin) /\ Deserialize(ty, stdin[i]).ok

\* the mode a guest decodes from the variant index the host wrote.  The host's
\* ProofType::ProofOfPassport is variant 0 of an enumeration the guest does not
\* have: the guest decodes the index as variant 0 of its own enumeration, whose
\* declaration (and so whose order) is not in the repository.  An index outside
\* the guest's enumeration does not decode.
DecodeMode(p, v) ==
    IF v \in GuestModes(p) THEN { v }
    ELSE IF p = "passport_protocol" /\ v = "ProofOfPassport" THEN GuestModes(p)
    ELSE { "undecodable" }

\* how many of the reads of types, in order from the cursor, succeed
GoodReads(types) ==
    IF \A k \in 1..Len(types) : CanRead(cursor + k, types[k]) THEN Len(types)
    ELSE (CHOOSE k \in 1..Len(types) :
              /\ ~CanRead(cursor + k, types[k])
              /\ \A j \in 1..(k - 1) : CanRead(cursor + j, types[j])) - 1

\* the read calls of a function that reads types in order: every read that
\* succeeds and, when one fails, the failing read, which is the last
ReadEvent(ty, i) ==
    LET d == IF i <= Len(stdin) THEN Deserialize(ty, stdin[i])
             ELSE [ok |-> FALSE, exact |-> FALSE]
    IN  [op |-> "read", type |-> ty, ok |-> d.ok, exact |-> d.exact]

ReadEvents(types) ==
    LET n == GoodReads(types)
        last == IF n < Len(types) THEN n + 1 ELSE n
    IN  [k \in 1..last |-> ReadEvent(types[k], cursor + k)]

---------------------------------------------------------------------------
(* The guest programs *)

Init ==
    /\ program \in Programs
    /\ overflow_checks \in BOOLEAN
    /\ \/ \E b \in Bundles(program) :
              \/ \E now \in Nows(program), m \in MinAges :
                     IsPrefixOf(AgeStream(program, b, now, m))
              \/ \E n \in Nationalities : IsPrefixOf(NationalityStream(program, b, n))
              \/ \E w \in Wallets : IsPrefixOf(WalletStream(program, b, w))
       \/ /\ program = "passport_protocol"
          /\ \E b \in FixtureBundles(program), w \in Wallets,
                now \in CombinedTimestamps, m \in MinAges :
                 IsPrefixOf(PassportStream(b, w, now, m, MYS))
       \/ \E b \in FixtureBundles(program), now \in Nows(program), m \in MinAges :
              stdin = InvalidModeStream(program, b, now, m)
    /\ cursor = 0
    /\ pc = "main"
    /\ mode = "none"
    /\ locals = [fn |-> "main"]
    /\ public_values = <<>>
    /\ events = <<>>
    /\ dispatched = <<>>

\* an abort that leaves what the function held on the output channel
AbortWithPartialOutput(types, frame) ==
    /\ pc' = "aborted"
    /\ cursor' = cursor + GoodReads(types)
    /\ locals' = frame
    /\ events' = events \o ReadEvents(types)
    /\ public_values' = Append(public_values, frame)

\* a panic: the run ends and nothing is committed
Abort(types, frame) ==
    /\ pc' = "aborted"
    /\ cursor' = cursor + GoodReads(types)
    /\ locals' = frame
    /\ events' = events \o ReadEvents(types)
    /\ UNCHANGED public_values

\* a commit that panics instead when a boolean of the record is false
CommitUnlessFalse(types, frame, output) ==
    IF \E f \in DOMAIN output \cap { "is_over_18", "is_target_nationality",
                                     "is_over_min_age", "is_match" } : ~output[f]
    THEN /\ pc' = "aborted"
         /\ cursor' = cursor + GoodReads(types)
         /\ locals' = frame
         /\ events' = events \o ReadEvents(types)
         /\ UNCHANGED public_values
    ELSE /\ pc' = "committed"
         /\ cursor' = cursor + GoodReads(types)
         /\ locals' = frame
         /\ events' = events \o ReadEvents(types) \o << [op |-> "commit"] >>
         /\ public_values' = Append(public_values, output)

\* a commit that writes the record twice
CommitTwice(types, frame, output) ==
    /\ pc' = "committed"
    /\ cursor' = cursor + GoodReads(types)
    /\ locals' = frame
    /\ events' = events \o ReadEvents(types) \o << [op |-> "commit"], [op |-> "commit"] >>
    /\ public_values' = public_values \o << output, output >>

\* sp1_zkvm::io::commit_slice(abi_encode(output)) as the last statement
Commit(types, frame, output) ==
    /\ pc' = "committed"
    /\ cursor' = cursor + GoodReads(types)
    /\ locals' = frame
    /\ events' = events \o ReadEvents(types) \o << [op |-> "commit"] >>
    /\ public_values' = Append(public_values, output)

\* the match of main: the function each mode dispatches to
Dispatch(p, m) ==
    IF p = "zkp"
    THEN CASE m = "Age" -> "verify_age"
           [] m = "Nationality" -> "verify_nationality"
           [] m = "WalletBinding" -> "verify_wallet_binding"
           [] OTHER -> "aborted"
    ELSE CASE m = "AgeCheck" -> "verify_age"
           [] m = "NationalityCheck" -> "verify_nationality"
           [] m = "WalletLink" -> "verify_wallet_binding"
           [] OTHER -> "aborted"

\* main of both programs: read the mode, dispatch on it
Main ==
    /\ pc = "main"
    /\ IF CanRead(cursor + 1, ModeType(program))
       THEN \E m \in DecodeMode(program, stdin[cursor + 1].val) :
                /\ mode' = IF m = "undecodable" THEN mode ELSE m
                /\ pc' = Dispatch(program, m)
                /\ cursor' = IF m = "undecodable" THEN cursor ELSE cursor + 1
                /\ events' = Append(events,
                                    [op |-> "read", type |-> ModeType(program),
                                     ok |-> m /= "undecodable",
                                     exact |-> m = stdin[cursor + 1].val])
       ELSE /\ pc' = "aborted"
            /\ events' = events \o ReadEvents(<< ModeType(program) >>)
            /\ UNCHANGED <<mode, cursor>>
    /\ UNCHANGED <<program, overflow_checks, stdin, locals, public_values, dispatched>>

\* age >= min_age
IsOverMinAgeStrict(age, min_age) == age > min_age
IsOverMinAge(age, min_age) == age >= min_age

\* passport.nationality == target_nationality on Strings
ToAsciiUpper(c) == IF c >= 97 /\ c <= 122 THEN c - 32 ELSE c
NationalityEqIgnoreCase(nationality, target) ==
    /\ Len(nationality) = Len(target)
    /\ \A i \in 1..Len(nationality) : ToAsciiUpper(nationality[i]) = ToAsciiUpper(target[i])
NationalityEq(nationality, target) == nationality = target

\* verify_age of zkp/program
ZkpVerifyAge ==
    /\ pc = "verify_age" /\ program = "zkp"
    /\ LET types == AgeFields(program)
           n == GoodReads(types)
       IN  IF n < Len(types) THEN Abort(types, [fn |-> "verify_age"])
           ELSE LET passport == Deserialize(types[1], stdin[cursor + 1]).val
                    current_date == Deserialize(types[2], stdin[cursor + 2]).val
                    min_age == Deserialize(types[3], stdin[cursor + 3]).val
                    age == calculate_age(passport.date_of_birth, current_date, overflow_checks)
                    frame == [fn |-> "verify_age", passport |-> passport,
                              current_date |-> current_date, min_age |-> min_age]
                    is_over_min_age == IsOverMinAge(age.value, min_age)
                    passport_commitment == create_passport_commitment(passport)
                IN  IF age.panic THEN Abort(types, frame)
                    ELSE Commit(types,
                                frame @@ [age |-> age.value,
                                          is_over_min_age |-> is_over_min_age,
                                          passport_commitment |-> passport_commitment],
                                [struct |-> "AgeVerificationOutput",
                                 is_over_18 |-> is_over_min_age,
                                 passport_commitment |-> passport_commitment])
    /\ UNCHANGED <<program, overflow_checks, stdin, mode, dispatched>>

\* verify_nationality of zkp/program
ZkpVerifyNationality ==
    /\ pc = "verify_nationality" /\ program = "zkp"
    /\ LET types == NationalityFields(program)
           n == GoodReads(types)
       IN  IF n < Len(types) THEN Abort(types, [fn |-> "verify_nationality"])
           ELSE LET passport == Deserialize(types[1], stdin[cursor + 1]).val
                    target_nationality == Deserialize(types[2], stdin[cursor + 2]).val
                    is_match == NationalityEq(passport.nationality, target_nationality)
                    passport_commitment == create_passport_commitment(passport)
                IN  Commit(types,
                           [fn |-> "verify_nationality", passport |-> passport,
                            target_nationality |-> target_nationality,
                            is_match |-> is_match,
                            passport_commitment |-> passport_commitment],
                           [struct |-> "NationalityVerificationOutput",
                            is_target_nationality |-> is_match,
                            passport_commitment |-> passport_commitment])
    /\ UNCHANGED <<program, overflow_checks, stdin, mode, dispatched>>

\* verify_wallet_binding of zkp/program
ZkpVerifyWalletBinding ==
    /\ pc = "verify_wallet_binding" /\ program = "zkp"
    /\ LET types == WalletFields(program)
           n == GoodReads(types)
       IN  IF n < Len(types) THEN Abort(types, [fn |-> "verify_wallet_binding"])
           ELSE LET passport == Deserialize(types[1], stdin[cursor + 1]).val
                    wallet_address == Deserialize(types[2], stdin[cursor + 2]).val
                    binding_commitment == create_wallet_binding(passport, wallet_address)
                IN  Commit(types,
                           [fn |-> "verify_wallet_binding", passport |-> passport,
                            wallet_address |-> wallet_address,
                            binding_commitment |-> binding_commitment],
                           [struct |-> "WalletBindingOutput",
                            binding_commitment |-> binding_commitment,
                            wallet_address |-> wallet_address])
    /\ UNCHANGED <<program, overflow_checks, stdin, mode, dispatched>>

\* verify_age of passport-protocol/program
PpVerifyAge ==
    /\ pc = "verify_age" /\ program = "passport_protocol"
    /\ LET types == AgeFields(program)
           n == GoodReads(types)
       IN  IF n < Len(types) THEN Abort(types, [fn |-> "verify_age"])
           ELSE LET passport == Deserialize(types[1], stdin[cursor + 1]).val
                    current_timestamp == Deserialize(types[2], stdin[cursor + 2]).val
                    min_age == Deserialize(types[3], stdin[cursor + 3]).val
                    date == IF Deserialize(types[2], stdin[cursor + 2]).exact
                            THEN [panic |-> FALSE,
                                  value |-> timestamp_to_date(current_timestamp)]
                            ELSE timestamp_to_date_le64(current_timestamp, overflow_checks)
                    current_date == date.value
                    age == calculate_age(passport.date_of_birth, current_date, overflow_checks)
                    read == [fn |-> "verify_age", passport |-> passport,
                             current_timestamp |-> current_timestamp, min_age |-> min_age]
                    frame == read @@ [current_date |-> current_date]
                    is_over_min_age == IsOverMinAge(age.value, min_age)
                    identity_commitment == derive_identity_commitment(passport)
                IN  IF ~verify_passport_signature(passport) THEN Abort(types, read)
                    ELSE IF date.panic THEN Abort(types, read)
                    ELSE IF age.panic THEN Abort(types, frame)
                    ELSE Commit(types,
                                frame @@ [age |-> age.value,
                                          is_over_min_age |-> is_over_min_age,
                                          identity_commitment |-> identity_commitment],
                                [struct |-> "AgeCheckOutput",
                                 is_over_min_age |-> is_over_min_age,
                                 identity_commitment |-> identity_commitment,
                                 min_age |-> min_age,
                                 current_timestamp |-> current_timestamp])
    /\ UNCHANGED <<program, overflow_checks, stdin, mode, dispatched>>

\* verify_nationality of passport-protocol/program
PpVerifyNationality ==
    /\ pc = "verify_nationality" /\ program = "passport_protocol"
    /\ LET types == NationalityFields(program)
           n == GoodReads(types)
       IN  IF n < Len(types) THEN Abort(types, [fn |-> "verify_nationality"])
           ELSE LET passport == Deserialize(types[1], stdin[cursor + 1]).val
                    target_nationality == Deserialize(types[2], stdin[cursor + 2]).val
                    frame == [fn |-> "verify_nationality", passport |-> passport,
                              target_nationality |-> target_nationality]
                    is_match == NationalityEq(passport.nationality, target_nationality)
                    identity_commitment == derive_identity_commitment(passport)
                IN  IF ~verify_passport_signature(passport) THEN Abort(types, frame)
                    ELSE Commit(types,
                                frame @@ [is_match |-> is_match,
                                          identity_commitment |-> identity_commitment],
                                [struct |-> "NationalityCheckOutput",
                                 is_match |-> is_match,
                                 identity_commitment |-> identity_commitment,
                                 target_nationality |-> target_nationality])
    /\ UNCHANGED <<program, overflow_checks, stdin, mode, dispatched>>

\* verify_wallet_binding of passport-protocol/program
PpVerifyWalletBinding ==
    /\ pc = "verify_wallet_binding" /\ program = "passport_protocol"
    /\ LET types == WalletFields(program)
           n == GoodReads(types)
       IN  IF n < Len(types) THEN Abort(types, [fn |-> "verify_wallet_binding"])
           ELSE LET passport == Deserialize(types[1], stdin[cursor + 1]).val
                    wallet_address == Deserialize(types[2], stdin[cursor + 2]).val
                    frame == [fn |-> "verify_wallet_binding", passport |-> passport,
                              wallet_address |-> wallet_address]
                    identity_commitment == derive_identity_commitment(passport)
                IN  IF ~verify_passport_signature(passport) THEN Abort(types, frame)
                    ELSE Commit(types,
                                frame @@ [identity_commitment |-> identity_commitment],
                                [struct |-> "WalletLinkOutput",
                                 identity_commitment |-> identity_commitment,
                                 wallet_address |-> wallet_address])
    /\ UNCHANGED <<program, overflow_checks, stdin, mode, dispatched>>

Next ==
    \/ Main
    \/ ZkpVerifyAge
    \/ ZkpVerifyNationality
    \/ ZkpVerifyWalletBinding
    \/ PpVerifyAge
    \/ PpVerifyNationality
    \/ PpVerifyWalletBinding

Spec == Init /\ [][Next]_vars

---------------------------------------------------------------------------
(* The library functions on their own: timestamp_to_date on 64-bit
   timestamps, calculate_age on a birth date and two current dates *)

\* the 8 little-endian bytes of a u64 below 2^31
ToLe64(t) == [i \in 1..8 |-> IF i <= 4 THEN (t \div (U8Mod ^ (i - 1))) % U8Mod ELSE 0]

\* seconds into the year at which the month or the day of the result changes
RemainderEdges ==
    { 0, SECONDS_PER_DAY - 1, SECONDS_PER_DAY,
      30 * SECONDS_PER_DAY - 1, 30 * SECONDS_PER_DAY,
      SECONDS_PER_MONTH - 1, SECONDS_PER_MONTH,
      11 * SECONDS_PER_MONTH - 1, 11 * SECONDS_PER_MONTH,
      11 * SECONDS_PER_MONTH + 30 * SECONDS_PER_DAY,
      SECONDS_PER_YEAR - 1 }

\* timestamps below 2^31: edges of the years 1970, 1971, 2025 and 2036
YearEdges == { 0, 1, 55, 66 }
SmallTimestamps == { q * SECONDS_PER_YEAR + r : q \in YearEdges, r \in RemainderEdges }

\* the upper four bytes of a timestamp; with 211, 1 the year is beyond 65535
HighParts ==
    { <<0, 0, 0, 0>>, <<1, 0, 0, 0>>, <<211, 1, 0, 0>>, <<0, 0, 0, 128>>,
      <<255, 255, 255, 255>> }

\* 64-bit timestamps, as their 8 little-endian bytes
TimestampBytes ==
    { SubSeq(ToLe64(t), 1, 4) \o h : t \in SmallTimestamps, h \in HighParts }

\* birth dates and current dates around the birthdays
AgeDates ==
    { Date(y, m, d) : y \in { 1994, 1995, 2025 }, m \in { 1, 11, 12 }, d \in { 1, 16, 17, 18 } }

InitLib ==
    /\ program \in Programs
    /\ overflow_checks \in BOOLEAN
    /\ \/ /\ program = "passport_protocol"
          /\ pc = "timestamp_to_date"
          /\ \E t \in TimestampBytes : stdin = << Item("u64", t) >>
       \/ /\ pc = "calculate_age"
          /\ \E birth \in BirthDates, c1 \in AgeDates, c2 \in AgeDates :
                 stdin = << Item("Date", birth), Item("Date", c1), Item("Date", c2) >>
    /\ cursor = 0
    /\ mode = "none"
    /\ locals = [fn |-> "main"]
    /\ public_values = <<>>
    /\ events = <<>>
    /\ dispatched = <<>>

\* one call of timestamp_to_date: it returns a date, or panics in the addition
\* of the year
CallTimestampToDate ==
    /\ pc = "timestamp_to_date"
    /\ LET timestamp == stdin[1].val
           date == timestamp_to_date_le64(timestamp, overflow_checks)
       IN  IF date.panic
           THEN /\ pc' = "aborted"
                /\ locals' = [fn |-> "timestamp_to_date", timestamp |-> timestamp]
           ELSE /\ pc' = "returned"
                /\ locals' = [fn |-> "timestamp_to_date", timestamp |-> timestamp,
                              date |-> date.value]
    /\ UNCHANGED <<program, overflow_checks, stdin, cursor, mode, public_values, events,
                   dispatched>>

\* calculate_age of one birth date at two current dates
CallCalculateAge ==
    /\ pc = "calculate_age"
    /\ LET birth == stdin[1].val
           age1 == calculate_age(birth, stdin[2].val, overflow_checks)
           age2 == calculate_age(birth, stdin[3].val, overflow_checks)
       IN  /\ pc' = IF age1.panic \/ age2.panic THEN "aborted" ELSE "returned"
           /\ locals' = [fn |-> "calculate_age", birth |-> birth,
                         current |-> << stdin[2].val, stdin[3].val >>,
                         age |-> << age1, age2 >>]
    /\ UNCHANGED <<program, overflow_checks, stdin, cursor, mode, public_values, events,
                   dispatched>>

NextLib == CallTimestampToDate \/ CallCalculateAge

SpecLib == InitLib /\ [][NextLib]_vars

---------------------------------------------------------------------------
(* The standalone guest programs of zkp/program/src/bin, each run on the
   payload the dispatcher of zkp/program ran on before *)

InitBin ==
    /\ Init
    /\ program = "zkp"
    /\ Len(stdin) >= 1
    /\ stdin[1].val \in GuestModes(program)

\* the dispatcher's run has ended: keep how it ended, and feed the payload
\* (the stream without the mode) to the standalone program of the mode
StartStandalone ==
    /\ pc \in { "committed", "aborted" }
    /\ dispatched = <<>>
    /\ mode \in GuestModes(program)
    /\ dispatched' = << [pc |-> pc, public_values |-> public_values,
                         events |-> Tail(events), reads |-> cursor - 1] >>
    /\ pc' = CASE mode = "Age" -> "bin_age"
               [] mode = "Nationality" -> "bin_nationality"
               [] mode = "WalletBinding" -> "bin_connection"
    /\ stdin' = Tail(stdin)
    /\ cursor' = 0
    /\ locals' = [fn |-> "main"]
    /\ public_values' = <<>>
    /\ events' = <<>>
    /\ UNCHANGED <<program, overflow_checks, mode>>

\* main of bin/age.rs with a strict comparison
BinAgeStrict ==
    /\ pc = "bin_age"
    /\ LET types == << "PassportData", "Date", "u16" >>
           n == GoodReads(types)
       IN  IF n < Len(types) THEN Abort(types, [fn |-> "main"])
           ELSE LET passport == Deserialize(types[1], stdin[cursor + 1]).val
                    current_date == Deserialize(types[2], stdin[cursor + 2]).val
                    min_age == Deserialize(types[3], stdin[cursor + 3]).val
                    age == calculate_age(passport.date_of_birth, current_date, overflow_checks)
                    frame == [fn |-> "main", passport |-> passport,
                              current_date |-> current_date, min_age |-> min_age]
                    is_over_min_age == age.value > min_age
                    passport_commitment == create_passport_commitment(passport)
                IN  IF age.panic THEN Abort(types, frame)
                    ELSE Commit(types,
                                frame @@ [age |-> age.value,
                                          is_over_min_age |-> is_over_min_age,
                                          passport_commitment |-> passport_commitment],
                                [struct |-> "AgeVerificationOutput",
                                 is_over_18 |-> is_over_min_age,
                                 passport_commitment |-> passport_commitment])
    /\ UNCHANGED <<program, overflow_checks, stdin, mode, dispatched>>

\* main of bin/age.rs
BinAge ==
    /\ pc = "bin_age"
    /\ LET types == << "PassportData", "Date", "u16" >>
           n == GoodReads(types)
       IN  IF n < Len(types) THEN Abort(types, [fn |-> "main"])
           ELSE LET passport == Deserialize(types[1], stdin[cursor + 1]).val
                    current_date == Deserialize(types[2], stdin[cursor + 2]).val
                    min_age == Deserialize(types[3], stdin[cursor + 3]).val
                    age == calculate_age(passport.date_of_birth, current_date, overflow_checks)
                    frame == [fn |-> "main", passport |-> passport,
                              current_date |-> current_date, min_age |-> min_age]
                    is_over_min_age == age.value >= min_age
                    passport_commitment == create_passport_commitment(passport)
                IN  IF age.panic THEN Abort(types, frame)
                    ELSE Commit(types,
                                frame @@ [age |-> age.value,
                                          is_over_min_age |-> is_over_min_age,
                                          passport_commitment |-> passport_commitment],
                                [struct |-> "AgeVerificationOutput",
                                 is_over_18 |-> is_over_min_age,
                                 passport_commitment |-> passport_commitment])
    /\ UNCHANGED <<program, overflow_checks, stdin, mode, dispatched>>

\* main of bin/nationality.rs
BinNationality ==
    /\ pc = "bin_nationality"
    /\ LET types == << "PassportData", "String" >>
           n == GoodReads(types)
       IN  IF n < Len(types) THEN Abort(types, [fn |-> "main"])
           ELSE LET passport == Deserialize(types[1], stdin[cursor + 1]).val
                    target_nationality == Deserialize(types[2], stdin[cursor + 2]).val
                    is_match == passport.nationality = target_nationality
                    passport_commitment == create_passport_commitment(passport)
                IN  Commit(types,
                           [fn |-> "main", passport |-> passport,
                            target_nationality |-> target_nationality,
                            is_match |-> is_match,
                            passport_commitment |-> passport_commitment],
                           [struct |-> "NationalityVerificationOutput",
                            is_target_nationality |-> is_match,
                            passport_commitment |-> passport_commitment])
    /\ UNCHANGED <<program, overflow_checks, stdin, mode, dispatched>>

\* main of bin/connection.rs
BinConnection ==
    /\ pc = "bin_connection"
    /\ LET types == << "PassportData", "[u8; 20]" >>
           n == GoodReads(types)
       IN  IF n < Len(types) THEN Abort(types, [fn |-> "main"])
           ELSE LET passport == Deserialize(types[1], stdin[cursor + 1]).val
                    wallet_address == Deserialize(types[2], stdin[cursor + 2]).val
                    binding_commitment == create_wallet_binding(passport, wallet_address)
                IN  Commit(types,
                           [fn |-> "main", passport |-> passport,
                            wallet_address |-> wallet_address,
                            binding_commitment |-> binding_commitment],
                           [struct |-> "WalletBindingOutput",
                            binding_commitment |-> binding_commitment,
                            wallet_address |-> wallet_address])
    /\ UNCHANGED <<program, overflow_checks, stdin, mode, dispatched>>

NextBin ==
    \/ Main
    \/ ZkpVerifyAge
    \/ ZkpVerifyNationality
    \/ ZkpVerifyWalletBinding
    \/ StartStandalone
    \/ BinAge
    \/ BinNationality
    \/ BinConnection

SpecBin == InitBin /\ [][NextBin]_vars

---------------------------------------------------------------------------
(* The host scripts that save a proof to disk.  Proving, verifying, decoding
   and writing the file succeed or fail as the prover, the proof and the disk
   decide; events is here the log of these calls *)

HostScripts == { "prove", "evm", "age_evm", "prove_nationality_onchain" }

\* the streams a script writes before it proves
HostStreams(script) ==
    CASE script \in { "prove", "evm" } ->
             { PassportStream(b, w, now, m, MYS) :
                   b \in { f \in FixtureBundles("passport_protocol") : f.signature /= <<>> },
                   w \in Wallets, now \in CombinedTimestamps, m \in MinAges }
      [] script = "age_evm" ->
             { AgeStream("zkp", b, now, m) :
                   b \in FixtureBundles("zkp"), now \in CurrentDates, m \in MinAges }
      [] script = "prove_nationality_onchain" ->
             { NationalityStream("passport_protocol", b, n) :
                   b \in { f \in FixtureBundles("passport_protocol") : f.signature /= <<>> },
                   n \in Nationalities }

InitHost ==
    /\ program \in HostScripts
    /\ overflow_checks \in BOOLEAN
    /\ stdin \in HostStreams(program)
    /\ cursor = 0
    /\ pc = "host_prove"
    /\ mode = "none"
    /\ locals = [fn |-> "main"]
    /\ public_values = <<>>
    /\ events = <<>>
    /\ dispatched = <<>>

\* a call of the script and its result, logged
HostCall(op, ok, next) ==
    /\ events' = Append(events, [op |-> op, ok |-> ok])
    /\ pc' = next
    /\ UNCHANGED <<program, overflow_checks, stdin, cursor, mode, locals, public_values,
                   dispatched>>

\* client.prove(&pk, &stdin)[.groth16()].run(): prove.rs matches on the
\* result, the other scripts expect it; evm.rs goes on to save the proof, the
\* others to verify it
HostProve ==
    /\ pc = "host_prove"
    /\ \E ok \in BOOLEAN :
          HostCall("prove", ok,
                   IF ok THEN (IF program = "evm" THEN "host_save" ELSE "host_verify")
                   ELSE IF program = "prove" THEN "host_done" ELSE "host_panicked")

\* client.verify(&proof, &vk): prove.rs prints the result and goes on, the
\* other scripts expect success
HostVerify ==
    /\ pc = "host_verify"
    /\ \E ok \in BOOLEAN :
          HostCall("verify", ok,
                   IF ok \/ program = "prove" THEN "host_decode" ELSE "host_panicked")

\* abi_decode of the public values: prove.rs saves inside the Ok arm, the
\* other scripts expect success
HostDecode ==
    /\ pc = "host_decode"
    /\ \E ok \in BOOLEAN :
          HostCall("decode", ok,
                   IF ok THEN "host_save"
                   ELSE IF program = "prove" THEN "host_done" ELSE "host_panicked")

\* std::fs::write of the proof file, unwrapped or expected
HostSave ==
    /\ pc = "host_save"
    /\ \E ok \in BOOLEAN :
          HostCall("save", ok, IF ok THEN "host_done" ELSE "host_panicked")

NextHost == HostProve \/ HostVerify \/ HostDecode \/ HostSave

SpecHost == InitHost /\ [][NextHost]_vars

---------------------------------------------------------------------------
(* Vocabulary of the properties *)

Committed == pc = "committed"
Aborted == pc = "aborted"

\* the output record of a committed run
Out == public_values[1]

InAgeMode == mode = AgeMode(program)
InNationalityMode == mode = NationalityMode(program)
InWalletMode == mode = WalletMode(program)

\* the verify_* function got past its reads
HasRead == "passport" \in DOMAIN locals

\* the commitment of section 4.2 of the specification, as each library computes it
commitment(p, b) ==
    IF p = "zkp" THEN create_passport_commitment(b) ELSE derive_identity_commitment(b)

\* the 32-byte digest field of an output record
DigestField(out) ==
    CASE out.struct \in { "AgeVerificationOutput", "NationalityVerificationOutput" } ->
             out.passport_commitment
      [] out.struct = "WalletBindingOutput" -> out.binding_commitment
      [] OTHER -> out.identity_commitment

\* the boolean fields of an output record
BoolFields(out) ==
    DOMAIN out \cap { "is_over_18", "is_target_nationality", "is_over_min_age",
                      "is_match", "is_valid_signature", "is_nationality_match" }

\* the bundles that differ from b at most in the fields the commitment must ignore
Variants(p, b) ==
    IF p = "zkp"
    THEN { [b EXCEPT !.date_of_expiry = e, !.given_names = g, !.surname = s] :
               e \in ExpiryDates, g \in GivenNames, s \in Surnames }
    ELSE UNION { { [b EXCEPT !.date_of_expiry = e, !.given_names = g, !.surname = s,
                             !.signature = sig, !.signed_attributes = sa] :
                       e \in ExpiryDates, g \in GivenNames, s \in Surnames } :
                   sig \in Signatures, sa \in SignedAttributes }

\* dates as numbers that order them by year, then month, then day
DateKey(d) == (d.year * 16 + d.month) * 32 + d.day
MonthDayKey(d) == d.month * 32 + d.day

\* the age of section 4.1 of the specification
ExpectedAge(birth, current) ==
    (current.year - birth.year)
        - (IF MonthDayKey(current) < MonthDayKey(birth) THEN 1 ELSE 0)

\* the age function ran: the run got past the reads and, in passport-protocol,
\* past the signature check
AgeComputed == InAgeMode /\ HasRead /\ "current_date" \in DOMAIN locals

AgeFlag(out) ==
    IF out.struct = "AgeVerificationOutput" THEN out.is_over_18 ELSE out.is_over_min_age

NationalityFlag(out) ==
    IF out.struct = "NationalityVerificationOutput"
    THEN out.is_target_nationality ELSE out.is_match

---------------------------------------------------------------------------
(* C1 *)

\* C1: every bundle that agrees with the bundle read on document_number,
\* date_of_birth and nationality has the same commitment as the bundle read,
\* whatever its given_names, surname, date_of_expiry, signature and
\* signed_attributes are; a committed digest is that common value.
C1_CommitmentIgnoresOtherFields ==
    HasRead =>
        \A b2 \in Variants(program, locals.passport) :
            /\ commitment(program, b2) = commitment(program, locals.passport)
            /\ (Committed /\ ~(program = "zkp" /\ InWalletMode))
                   => DigestField(Out) = commitment(program, b2)

C1_Witness ==
    /\ Committed /\ InNationalityMode
    /\ \E b2 \in Variants(program, locals.passport) :
           /\ b2.given_names /= locals.passport.given_names
           /\ b2.surname /= locals.passport.surname
           /\ b2.date_of_expiry /= locals.passport.date_of_expiry
           /\ DigestField(Out) = commitment(program, b2)

---------------------------------------------------------------------------
(* C2 *)

\* the digest the commitment function produced in this run: the digest field,
\* or in zkp's WalletBinding mode the digest the binding hash was fed first
CommitmentComputed ==
    IF program = "zkp" /\ InWalletMode
    THEN LET inp == DigestInput(Out.binding_commitment)
         IN  SubSeq(inp, 1, Len(inp) - Len(Out.wallet_address))
    ELSE DigestField(Out)

\* C2: the bytes hashed by the commitment function are the document number,
\* then the birth year as two bytes with the low byte first, then the birth
\* month and the birth day as one byte each, then the nationality, and
\* nothing else.
C2_CommitmentInputLayout ==
    Committed =>
        LET b == locals.passport
            inp == DigestInput(CommitmentComputed)
            n == Len(b.document_number)
        IN  /\ IsDigest(CommitmentComputed)
            /\ Len(inp) = n + 4 + Len(b.nationality)
            /\ SubSeq(inp, 1, n) = b.document_number
            /\ inp[n + 1] \in 0..(U8Mod - 1)
            /\ inp[n + 2] \in 0..(U8Mod - 1)
            /\ inp[n + 1] + U8Mod * inp[n + 2] = b.date_of_birth.year
            /\ inp[n + 3] = b.date_of_birth.month
            /\ inp[n + 4] = b.date_of_birth.day
            /\ SubSeq(inp, n + 5, Len(inp)) = b.nationality

C2_Witness ==
    /\ Committed /\ InAgeMode
    /\ locals.passport.date_of_birth.year = 1994
    /\ DigestInput(CommitmentComputed) = <<65, 49, 202, 7, 11, 17, 77, 89, 83>>

---------------------------------------------------------------------------
(* C3 *)

\* C3 as claimed: in every mode the digest field of the committed record is
\* commitment(bundle) of the bundle read.
C3_Original ==
    Committed => DigestField(Out) = commitment(program, locals.passport)

\* C3: in the Age and Nationality modes of both programs and in the
\* WalletLink mode of passport-protocol the digest field of the committed
\* record is commitment(bundle) of the bundle read; in the WalletBinding mode
\* of zkp it is the binding hash, which is fed commitment(bundle) first and
\* is never equal to it.
C3_CommitmentInEveryRecord ==
    Committed =>
        /\ "passport" \in DOMAIN locals
        /\ IF program = "zkp" /\ InWalletMode
           THEN /\ DigestField(Out) /= create_passport_commitment(locals.passport)
                /\ CommitmentComputed = create_passport_commitment(locals.passport)
           ELSE DigestField(Out) = create_passport_commitment(locals.passport)

C3_Witness ==
    /\ Committed /\ InWalletMode /\ program = "passport_protocol"
    /\ DigestField(Out) = create_passport_commitment(locals.passport)

---------------------------------------------------------------------------
(* C4 *)

\* C4: the binding is the hash of the commitment followed by the 20 wallet
\* bytes, and the same bundle bound to any other wallet has another binding.
C4_BindingUnique ==
    (Committed /\ program = "zkp" /\ InWalletMode) =>
        LET b == locals.passport
            w == locals.wallet_address
        IN  /\ Len(w) = 20
            /\ IsDigest(Out.binding_commitment)
            /\ DigestInput(Out.binding_commitment) = create_passport_commitment(b) \o w
            /\ \A w2 \in Wallets :
                   (w2 /= w) => create_wallet_binding(b, w2) /= Out.binding_commitment
            /\ create_wallet_binding(b, w) = Out.binding_commitment

C4_Witness ==
    /\ Committed /\ program = "zkp" /\ InWalletMode
    /\ locals.wallet_address = Wallet(112, 200)
    /\ create_wallet_binding(locals.passport, Wallet(112, 201)) /= Out.binding_commitment

---------------------------------------------------------------------------
(* C5 *)

\* C5 as claimed: in WalletBinding mode the digest committed is the binding
\* hash of the bundle and the wallet read, with the wallet and no boolean.
C5_Original ==
    (Committed /\ InWalletMode) =>
        /\ DigestField(Out) =
               Sha256Finalize(commitment(program, locals.passport) \o stdin[3].val)
        /\ Out.wallet_address = stdin[3].val
        /\ BoolFields(Out) = {}

\* C5: in the WalletBinding mode of zkp the digest committed is the binding
\* hash of the bundle and the wallet read; in the WalletLink mode of
\* passport-protocol it is the identity commitment of the bundle and no
\* binding hash is computed; in both the wallet address is committed as read
\* and the record has no boolean.
C5_WalletModeRecord ==
    (Committed /\ InWalletMode) =>
        /\ IF program = "zkp"
           THEN DigestField(Out) =
                    Sha256Finalize(commitment(program, locals.passport) \o stdin[3].val)
           ELSE DigestField(Out) = commitment(program, locals.passport)
        /\ Out.wallet_address = stdin[3].val
        /\ BoolFields(Out) = {}
        /\ DOMAIN Out = { "struct", "wallet_address",
                          IF program = "zkp" THEN "binding_commitment"
                                             ELSE "identity_commitment" }

C5_Witness ==
    /\ Committed /\ InWalletMode /\ program = "zkp"
    /\ Out.wallet_address = Wallet(113, 200)
    /\ DigestInput(Out.binding_commitment) =
           create_passport_commitment(locals.passport) \o Wallet(113, 200)

---------------------------------------------------------------------------
(* C6 *)

\* C6: when the current date is not before the birth date, the run computes
\* the age current.year - birth.year, less 1 exactly when (month, day) of the
\* current date is before (month, day) of the birth date; on the birthday
\* itself it is not decremented (born 1994-11-17: 30 on 2025-11-16, 31 on
\* 2025-11-17 and on 2025-11-18).
C6_AgeOfOrderedDates ==
    (AgeComputed /\ DateKey(locals.passport.date_of_birth) <= DateKey(locals.current_date)) =>
        LET birth == locals.passport.date_of_birth
            current == locals.current_date
        IN  /\ Committed
            /\ locals.age = ExpectedAge(birth, current)
            /\ locals.age >= 0
            /\ (birth = Date(1994, 11, 17) /\ current = Date(2025, 11, 16)) => locals.age = 30
            /\ (birth = Date(1994, 11, 17) /\ current = Date(2025, 11, 17)) => locals.age = 31
            /\ (birth = Date(1994, 11, 17) /\ current = Date(2025, 11, 18)) => locals.age = 31
            /\ (MonthDayKey(current) = MonthDayKey(birth))
                   => locals.age = current.year - birth.year

C6_Witness ==
    /\ AgeComputed /\ Committed
    /\ locals.passport.date_of_birth = Date(1994, 11, 17)
    /\ locals.current_date = Date(2025, 11, 16)
    /\ locals.age = 30

---------------------------------------------------------------------------
(* C7 *)

\* C7: when current.year < birth.year the age computation fails: the run
\* aborts, no age value is produced and nothing is committed.
C7_EarlierYearFails ==
    (AgeComputed /\ locals.current_date.year < locals.passport.date_of_birth.year) =>
        /\ Aborted
        /\ "age" \notin DOMAIN locals
        /\ public_values = <<>>

---------------------------------------------------------------------------
(* C8 *)

\* C8: when the current date is before the birth date within the same year
\* the age computation fails: the run aborts, the age 0 is never decremented
\* and the value 65535 is never produced.
C8_SameYearBeforeBirthFails ==
    (/\ AgeComputed
     /\ locals.current_date.year = locals.passport.date_of_birth.year
     /\ MonthDayKey(locals.current_date) < MonthDayKey(locals.passport.date_of_birth)) =>
        /\ Aborted
        /\ "age" \notin DOMAIN locals
        /\ public_values = <<>>

---------------------------------------------------------------------------
(* C9 *)

\* C9: in Age mode the committed boolean is true exactly when the age
\* computed is at least min_age (for ordered dates: the age of section 4.1),
\* so an age equal to min_age gives true and an age one below gives false.
C9_AgePredicate ==
    (Committed /\ InAgeMode) =>
        /\ AgeFlag(Out) \in BOOLEAN
        /\ AgeFlag(Out) <=> (locals.age >= locals.min_age)
        /\ (locals.age = locals.min_age) => AgeFlag(Out)
        /\ (locals.age = locals.min_age - 1) => ~AgeFlag(Out)
        /\ (DateKey(locals.passport.date_of_birth) <= DateKey(locals.current_date)) =>
               (AgeFlag(Out) <=>
                    ExpectedAge(locals.passport.date_of_birth, locals.current_date)
                        >= locals.min_age)

C9_Witness ==
    /\ Committed /\ InAgeMode
    /\ locals.age = 31 /\ locals.min_age = 31
    /\ AgeFlag(Out)

---------------------------------------------------------------------------
(* C10 *)

\* C10: in Nationality mode the committed boolean is true exactly when the
\* bundle's nationality and the target read have the same length and the same
\* byte at every position; "MYS" against "mys" and "MYS" against "MY" give
\* false.
C10_NationalityPredicate ==
    (Committed /\ InNationalityMode) =>
        LET nat == locals.passport.nationality
            target == stdin[3].val
        IN  /\ NationalityFlag(Out) \in BOOLEAN
            /\ NationalityFlag(Out) <=>
                   (/\ Len(nat) = Len(target)
                    /\ \A i \in 1..Len(nat) : nat[i] = target[i])
            /\ (nat = MYS /\ target = MYS) => NationalityFlag(Out)
            /\ (nat = MYS /\ target = mys) => ~NationalityFlag(Out)
            /\ (nat = MYS /\ target = MY) => ~NationalityFlag(Out)

C10_Witness ==
    /\ Committed /\ InNationalityMode
    /\ locals.passport.nationality = MYS /\ stdin[3].val = mys
    /\ ~NationalityFlag(Out)

---------------------------------------------------------------------------
(* C11 *)

\* signatures of other lengths and contents than the streams carry
SignatureContents == Signatures \cup { <<0>>, <<1>>, <<222, 173>>, <<0, 0>> }
SignedAttributeContents == SignedAttributes \cup { <<0>>, <<222, 173>> }

InPassportProtocol == program = "passport_protocol"
Ended == Committed \/ Aborted

\* C11: the signature of a bundle is valid exactly when it is non-empty:
\* whatever the content of the signature, the signed attributes and the other
\* fields of the bundle are.  A run that committed had a non-empty signature.
C11_SignatureValidIffNonEmpty ==
    (InPassportProtocol /\ HasRead) =>
        /\ verify_passport_signature(locals.passport)
               <=> Len(locals.passport.signature) > 0
        /\ \A v \in Variants(program, locals.passport) :
               verify_passport_signature(v) <=> Len(v.signature) > 0
        /\ \A sig \in SignatureContents, sa \in SignedAttributeContents :
               verify_passport_signature(
                   [locals.passport EXCEPT !.signature = sig, !.signed_attributes = sa])
                 <=> Len(sig) > 0
        /\ Committed => Len(locals.passport.signature) > 0

C11_Witness ==
    /\ InPassportProtocol /\ Committed
    /\ Len(locals.passport.signature) > 0
    /\ locals.passport.signed_attributes = <<>>

---------------------------------------------------------------------------
(* C12 *)

\* the locals a verify_* function holds once it has only read its inputs
InputLocals ==
    { "fn", "passport", "current_timestamp", "min_age", "target_nationality",
      "wallet_address" }

\* C12: in the passport-protocol modes, a bundle with an invalid (empty)
\* signature aborts the run before any predicate or commitment is computed,
\* and nothing is written to the output channel.
C12_InvalidSignatureAborts ==
    (InPassportProtocol /\ HasRead /\ locals.passport.signature = <<>>) =>
        /\ Aborted
        /\ public_values = <<>>
        /\ DOMAIN locals \subseteq InputLocals
        /\ \A k \in 1..Len(events) : events[k].op /= "commit"

C12_Witness ==
    /\ InPassportProtocol /\ HasRead /\ InNationalityMode
    /\ locals.passport.signature = <<>>
    /\ cursor = Len(stdin)
    /\ Aborted

---------------------------------------------------------------------------
(* C13 *)

\* the host wrote the whole combined-mode stream
CombinedStream ==
    /\ Len(stdin) = 6
    /\ stdin[1] = Item("ProofType", "ProofOfPassport")

\* C13: when the mode read is the combined mode ProofOfPassport, the run
\* reaches Committed with one record whose is_valid_signature field carries
\* the signature validity, whether the signature is valid or not.
C13_CombinedModeReports ==
    (InPassportProtocol /\ CombinedStream /\ Ended) =>
        /\ Committed
        /\ Len(public_values) = 1
        /\ "is_valid_signature" \in DOMAIN Out
        /\ Out.is_valid_signature = (Len(stdin[2].val.signature) > 0)

---------------------------------------------------------------------------
(* C14 *)

\* the positions of the writes in the run
CommitPositions == { k \in 1..Len(events) : events[k].op = "commit" }

\* C14: the output channel is written at most once, the write is the last
\* step of the run and no input is read after it: a run ends with no record
\* or exactly one.
C14_WriteOnceAndLast ==
    /\ Len(public_values) <= 1
    /\ Cardinality(CommitPositions) = Len(public_values)
    /\ \A k \in CommitPositions : k = Len(events)
    /\ Committed <=> Len(public_values) = 1
    /\ Aborted => public_values = <<>>
    /\ Ended => ~ENABLED Next

\* a run that wrote its record and stopped with input left unread
C14_Witness ==
    /\ Committed
    /\ Len(public_values) = 1
    /\ events[Len(events)].op = "commit"
    /\ cursor < Len(stdin)

---------------------------------------------------------------------------
(* C15 *)

\* the fields section 6 declares for each mode, in their declared order
DeclaredFields(p, m) ==
    CASE m = AgeMode(p) ->
             << BundleType(p), IF p = "zkp" THEN "Date" ELSE "u64", "u16" >>
      [] m = NationalityMode(p) -> << BundleType(p), "String" >>
      [] m = WalletMode(p) -> << BundleType(p), "[u8; 20]" >>
      [] OTHER -> << >>

\* the stream is a mode of the program followed by exactly that mode's fields
WellFormedStream ==
    /\ Len(stdin) >= 1
    /\ stdin[1].type = ModeType(program)
    /\ stdin[1].val \in GuestModes(program)
    /\ [k \in 1..Len(stdin) |-> stdin[k].type]
           = << ModeType(program) >> \o DeclaredFields(program, stdin[1].val)

\* the current date the stream gives the Age mode
InputCurrentDate ==
    IF program = "zkp" THEN stdin[3].val ELSE timestamp_to_date(stdin[3].val)

\* C15: a false predicate is no error.  With a well-formed stream, a valid
\* signature and a current date not before the birth date, the run of the Age
\* or Nationality mode ends Committed and its record carries the value of the
\* predicate, false included.
C15_FalsePredicateCommits ==
    ( /\ Ended /\ WellFormedStream
      /\ stdin[1].val \in { AgeMode(program), NationalityMode(program) }
      /\ InPassportProtocol => Len(stdin[2].val.signature) > 0
      /\ stdin[1].val = AgeMode(program) =>
             DateKey(stdin[2].val.date_of_birth) <= DateKey(InputCurrentDate) ) =>
        /\ Committed
        /\ Len(public_values) = 1
        /\ InAgeMode =>
               (AgeFlag(Out) <=>
                    ExpectedAge(stdin[2].val.date_of_birth, InputCurrentDate)
                        >= stdin[4].val)
        /\ InNationalityMode =>
               (NationalityFlag(Out) <=> stdin[2].val.nationality = stdin[3].val)

\* an age below the minimum, committed as false
C15_Witness ==
    /\ Committed /\ WellFormedStream /\ InAgeMode
    /\ DateKey(stdin[2].val.date_of_birth) <= DateKey(InputCurrentDate)
    /\ ExpectedAge(stdin[2].val.date_of_birth, InputCurrentDate) < stdin[4].val
    /\ AgeFlag(Out) = FALSE

---------------------------------------------------------------------------
(* C16 *)

\* the reads of the run, in order, and the types they asked for
Reads == SelectSeq(events, LAMBDA e : e.op = "read")
ReadTypes == [k \in 1..Len(Reads) |-> Reads[k].type]

\* what a run in the mode decoded reads, from first to last
DeclaredReads == << ModeType(program) >> \o DeclaredFields(program, mode)

\* C16: the mode is the first item read, then exactly the fields of that mode
\* are read in their declared order: the reads of a run are always an initial
\* part of that list, the whole list when the run committed, and every read
\* takes the next item of the stream.
C16_ReadOrder ==
    /\ Len(ReadTypes) <= Len(DeclaredReads)
    /\ ReadTypes = Prefix(DeclaredReads, Len(ReadTypes))
    /\ Committed => ReadTypes = DeclaredReads
    /\ \A k \in 1..(Len(Reads) - 1) : Reads[k].ok
    /\ cursor = Cardinality({ k \in 1..Len(Reads) : Reads[k].ok })
    /\ mode /= "none" => (Reads[1].type = ModeType(program) /\ Reads[1].ok)
    /\ pc = "main" => Reads = << >>

C16_Witness ==
    /\ Committed /\ InAgeMode /\ WellFormedStream
    /\ program = "zkp"
    /\ ReadTypes = << "VerificationMode", "PassportData", "Date", "u16" >>
    /\ cursor = 4

---------------------------------------------------------------------------
(* C17 *)

\* the stream ends before the fields of the mode decoded are all read
ShortStream ==
    \/ Len(stdin) = 0
    \/ mode /= "none" /\ Len(stdin) < Len(DeclaredReads)

\* the first item is no mode of the program
UnknownMode == Len(stdin) >= 1 /\ stdin[1].val = "Invalid"

\* C17: a stream that ends before every field of the mode is read, or whose
\* mode is unknown, makes the run abort before anything is computed from the
\* inputs, and the output channel stays empty.
C17_DecodeErrorAborts ==
    (ShortStream \/ UnknownMode) =>
        /\ public_values = << >>
        /\ CommitPositions = {}
        /\ ~Committed
        /\ Ended => (Aborted /\ DOMAIN locals \subseteq { "fn" })

\* an Age stream cut after the current date
C17_Witness ==
    /\ Aborted /\ InAgeMode
    /\ Len(stdin) = 3 /\ cursor = 3
    /\ public_values = << >>

---------------------------------------------------------------------------
(* C18 *)

\* C18: every committed record contains each public parameter its mode's
\* predicate took, with the value read: the target nationality, the wallet
\* address, the minimum age and the current date or timestamp.
C18_ParametersEchoed ==
    Committed =>
        /\ InNationalityMode =>
               /\ "target_nationality" \in DOMAIN Out
               /\ Out.target_nationality = locals.target_nationality
        /\ InWalletMode =>
               /\ "wallet_address" \in DOMAIN Out
               /\ Out.wallet_address = locals.wallet_address
        /\ InAgeMode =>
               /\ "min_age" \in DOMAIN Out
               /\ Out.min_age = locals.min_age
               /\ \/ /\ "current_date" \in DOMAIN Out
                     /\ Out.current_date = locals.current_date
                  \/ /\ "current_timestamp" \in DOMAIN Out
                     /\ Out.current_timestamp = locals.current_timestamp

---------------------------------------------------------------------------
(* C19 *)

\* the stream is all of what one host script writes
HostStream == WellFormedStream \/ (InPassportProtocol /\ CombinedStream)

\* C19: what a host script writes is exactly what the guest reads: every
\* read decodes the item as the type it was written with, no written item is
\* left unread, and the combined-mode stream is accepted by the dispatcher.
C19_HostStreamIsGuestStream ==
    (HostStream /\ Ended) =>
        /\ \A k \in 1..Len(Reads) : Reads[k].ok /\ Reads[k].exact
        /\ ReadTypes = [k \in 1..Len(stdin) |-> stdin[k].type]
        /\ cursor = Len(stdin)
        /\ (CombinedStream /\ Len(stdin[2].val.signature) > 0) => Committed

---------------------------------------------------------------------------
(* C20 *)

\* the triple a commitment is meant to identify
Triple(b) == << b.document_number, b.date_of_birth, b.nationality >>

\* text whose bytes are all ASCII is a valid String
IsText(s) == \A i \in 1..Len(s) : s[i] < 128

\* the bundle b with its hash input x cut at another place: the first d bytes
\* as document number, the next four as year (little-endian), month and day,
\* the rest as nationality
Resplit(b, x, d) ==
    [b EXCEPT !.document_number = SubSeq(x, 1, d),
              !.date_of_birth = Date(x[d + 1] + x[d + 2] * U8Mod, x[d + 3], x[d + 4]),
              !.nationality = SubSeq(x, d + 5, Len(x))]

\* bundles to compare the bundle b with: the bundles of the streams and the
\* bundles made of the same bytes cut elsewhere
OtherBundles(p, b) ==
    LET x == CommitmentInput(b)
        cuts == { Resplit(b, x, d) : d \in 0..(Len(x) - 4) }
    IN  Bundles(p) \cup
        { o \in cuts : IsText(o.document_number) /\ IsText(o.nationality) }

\* C20: bundles with different (document_number, date_of_birth, nationality)
\* triples never have the same hash input, so never the same commitment, also
\* when their document numbers have different lengths.
C20_CommitmentInputInjective ==
    HasRead =>
        \A o \in OtherBundles(program, locals.passport) :
            Triple(o) /= Triple(locals.passport) =>
                /\ CommitmentInput(o) /= CommitmentInput(locals.passport)
                /\ commitment(program, o) /= commitment(program, locals.passport)

---------------------------------------------------------------------------
(* C21 *)

\* the bundle with the fields that must not matter set to fixed values: names
\* and expiry always, signature bytes and signed attributes when the signature
\* is non-empty (an empty signature stays empty)
Canon(b) ==
    [f \in DOMAIN b |->
        CASE f \in { "given_names", "surname", "signed_attributes" } -> << >>
          [] f = "date_of_expiry" -> Date(1, 1, 1)
          [] f = "signature" -> IF b[f] = << >> THEN << >> ELSE << 0 >>
          [] OTHER -> b[f]]

\* the stream with its bundle made canonical
CanonStream ==
    [k \in 1..Len(stdin) |->
        IF stdin[k].type = BundleType(program)
        THEN Item(stdin[k].type, Canon(stdin[k].val))
        ELSE stdin[k]]

\* what a run observably ends with
Observable == [pc |-> pc, public_values |-> public_values]
AbortedRun == [pc |-> "aborted", public_values |-> << >>]
CommittedRun(out) == [pc |-> "committed", public_values |-> << out >>]

\* the end of a run of program p in mode m on the stream s, as a function of
\* these alone
Outcome(p, checks, m, s) ==
    LET fields == DeclaredFields(p, m)
        Field(k) == Deserialize(fields[k], s[k + 1])
        decoded == /\ fields /= << >>
                   /\ Len(s) >= 1 + Len(fields)
                   /\ \A k \in 1..Len(fields) : Field(k).ok
    IN  IF ~decoded THEN AbortedRun
        ELSE IF p = "passport_protocol" /\ Field(1).val.signature = << >> THEN AbortedRun
        ELSE LET b == Field(1).val
                 c == commitment(p, b)
             IN  CASE m = AgeMode(p) ->
                      LET date == IF p = "zkp" THEN [panic |-> FALSE, value |-> Field(2).val]
                                  ELSE IF Field(2).exact
                                  THEN [panic |-> FALSE,
                                        value |-> timestamp_to_date(Field(2).val)]
                                  ELSE timestamp_to_date_le64(Field(2).val, checks)
                          age == calculate_age(b.date_of_birth, date.value, checks)
                          flag == age.value >= Field(3).val
                      IN  IF date.panic \/ age.panic THEN AbortedRun
                          ELSE IF p = "zkp"
                          THEN CommittedRun([struct |-> "AgeVerificationOutput",
                                             is_over_18 |-> flag,
                                             passport_commitment |-> c])
                          ELSE CommittedRun([struct |-> "AgeCheckOutput",
                                             is_over_min_age |-> flag,
                                             identity_commitment |-> c,
                                             min_age |-> Field(3).val,
                                             current_timestamp |-> Field(2).val])
                   [] m = NationalityMode(p) ->
                      LET flag == b.nationality = Field(2).val
                      IN  IF p = "zkp"
                          THEN CommittedRun([struct |-> "NationalityVerificationOutput",
                                             is_target_nationality |-> flag,
                                             passport_commitment |-> c])
                          ELSE CommittedRun([struct |-> "NationalityCheckOutput",
                                             is_match |-> flag,
                                             identity_commitment |-> c,
                                             target_nationality |-> Field(2).val])
                   [] m = WalletMode(p) ->
                      IF p = "zkp"
                      THEN CommittedRun([struct |-> "WalletBindingOutput",
                                         binding_commitment |->
                                             Sha256Finalize(c \o Field(2).val),
                                         wallet_address |-> Field(2).val])
                      ELSE CommittedRun([struct |-> "WalletLinkOutput",
                                         identity_commitment |-> c,
                                         wallet_address |-> Field(2).val])

\* C21: the end state and the output of a run are a function of the program,
\* the build, the mode and the stream with the bundle made canonical: two runs
\* that differ only in given_names, surname, date_of_expiry and, for a
\* non-empty signature, in the signature bytes and the signed attributes end
\* in the same state with the same output.
C21_IgnoredFieldsDoNotInterfere ==
    Ended => Observable = Outcome(program, overflow_checks, mode, CanonStream)

\* a committed run whose bundle differs from its canonical form in every
\* field that must not matter
C21_Witness ==
    /\ Committed /\ InPassportProtocol /\ InNationalityMode
    /\ locals.passport.given_names /= Canon(locals.passport).given_names
    /\ locals.passport.surname /= Canon(locals.passport).surname
    /\ locals.passport.date_of_expiry /= Canon(locals.passport).date_of_expiry
    /\ locals.passport.signature /= Canon(locals.passport).signature
    /\ locals.passport.signed_attributes /= Canon(locals.passport).signed_attributes
    /\ Observable = Outcome(program, overflow_checks, mode, CanonStream)

---------------------------------------------------------------------------
(* C22 *)

\* the u64 with the given 8 little-endian bytes, modulo d: byte by byte from
\* the most significant, always reduced
Le64Mod(bytes, d) ==
    LET F[i \in 0..8] ==
            IF i = 0 THEN 0
            ELSE (((F[i - 1] * 16) % d) * 16 + bytes[9 - i]) % d
    IN  F[8]

\* the timestamp as a number, when it is below 2^31
IsSmall(bytes) == bytes[4] < 128 /\ \A i \in 5..8 : bytes[i] = 0
SmallValue(bytes) ==
    bytes[1] + U8Mod * (bytes[2] + U8Mod * (bytes[3] + U8Mod * bytes[4]))

TimestampToDateCalled == "fn" \in DOMAIN locals /\ locals.fn = "timestamp_to_date"

\* C22: for every 64-bit timestamp t the date timestamp_to_date returns has
\* month = 1 + (t mod 31536000) div 2628000 in 1..12 and
\* day = 1 + ((t mod 31536000) mod 2628000) div 86400 in 1..31; the values cast
\* to 8 bits and the additions of 1 stay below 256, so that the only operation
\* that can fail is the 16-bit addition of the year.
C22_MonthAndDayInRange ==
    TimestampToDateCalled =>
        LET t == locals.timestamp
            r == Le64Mod(t, 31536000)
            m == r \div 2628000
            d == (r % 2628000) \div 86400
        IN  /\ IsSmall(t) => r = SmallValue(t) % 31536000
            /\ m < 256 /\ 1 + m < 256
            /\ d < 256 /\ 1 + d < 256
            /\ 1 + m \in 1..12
            /\ 1 + d \in 1..31
            /\ pc = "returned" =>
                   /\ locals.date.month = 1 + m
                   /\ locals.date.day = 1 + d
                   /\ IsSmall(t) => locals.date = timestamp_to_date(SmallValue(t))
            /\ pc = "aborted" =>
                   /\ overflow_checks
                   /\ timestamp_to_date_le64(t, FALSE).value.year < 1970

\* the last second of a 365-day year of a timestamp beyond 2^63: month 12
C22_Witness ==
    /\ TimestampToDateCalled /\ pc = "returned"
    /\ locals.timestamp[8] >= 128
    /\ locals.date.month = 12
    /\ locals.date.day >= 1

---------------------------------------------------------------------------
(* C23 *)

CalculateAgeCalled == "fn" \in DOMAIN locals /\ locals.fn = "calculate_age"

\* birth <= c1 <= c2, ordered by year, then month, then day
OrderedFromBirth(birth, c1, c2) ==
    /\ DateKey(birth) <= DateKey(c1)
    /\ DateKey(c1) <= DateKey(c2)

\* C23: for a fixed birth date calculate_age is non-decreasing in the current
\* date from the birth date on: for current dates c1 <= c2 not before birth,
\* age(birth, c1) <= age(birth, c2), so an age that reached a minimum age at
\* c1 reaches it at c2.
C23_AgeMonotone ==
    (CalculateAgeCalled
        /\ OrderedFromBirth(locals.birth, locals.current[1], locals.current[2])) =>
        /\ pc = "returned"
        /\ ~locals.age[1].panic /\ ~locals.age[2].panic
        /\ locals.age[1].value <= locals.age[2].value
        /\ \A min_age \in MinAges \cup { 0, 1, 30, 31 } :
               IsOverMinAge(locals.age[1].value, min_age)
                   => IsOverMinAge(locals.age[2].value, min_age)

\* the day before and the day of the 31st birthday
C23_Witness ==
    /\ CalculateAgeCalled /\ pc = "returned"
    /\ locals.birth = Date(1994, 11, 17)
    /\ locals.current = << Date(2025, 11, 16), Date(2025, 11, 17) >>
    /\ locals.age[1].value = 30 /\ locals.age[2].value = 31

---------------------------------------------------------------------------
(* C24 *)

\* a standalone program has run on the payload of the dispatcher's run
StandaloneEnded == dispatched /= <<>> /\ Ended

\* C24: a standalone program of zkp/program/src/bin run on a mode's payload
\* ends as the dispatcher run on the mode followed by that payload, step for
\* step after the mode is read: the same reads with the same results, the same
\* end (committed or aborted) and the same public output.
C24_StandaloneEqualsDispatcher ==
    StandaloneEnded =>
        /\ pc = dispatched[1].pc
        /\ public_values = dispatched[1].public_values
        /\ events = dispatched[1].events
        /\ cursor = dispatched[1].reads

\* bin/age.rs and the Age branch both committed the record of an age equal to
\* the minimum age
C24_Witness ==
    /\ StandaloneEnded /\ Committed /\ mode = "Age"
    /\ locals.age = locals.min_age
    /\ Len(public_values) = 1
    /\ public_values = dispatched[1].public_values
    /\ Out.is_over_18

---------------------------------------------------------------------------
(* C25 *)

\* the positions in the log of the calls that wrote the proof file
Saved == { k \in 1..Len(events) : events[k].op = "save" /\ events[k].ok }

\* C25: in every host script that saves a proof, the proof file is written
\* only after proof generation succeeded and the verification of that proof
\* returned success: a run whose verification fails or is skipped leaves no
\* saved proof.
C25_SavedOnlyAfterVerified ==
    program \in HostScripts =>
        \A k \in Saved :
            /\ \E i \in 1..(k - 1) : events[i].op = "prove" /\ events[i].ok
            /\ \E j \in 1..(k - 1) : events[j].op = "verify" /\ events[j].ok

====
